---- MODULE Spec2Model ----
(***************************************************************************)
(* Interview session and topic-rotation state machine of the UPSC          *)
(* interviewer.  Three programs serve the same HTTP surface:               *)
(*   "express"  : the in-process Express server (src/server.js 1-676),     *)
(*                sessions in a Map of live objects;                        *)
(*   "catalog"  : the serverless handler with the 14-entry                  *)
(*                INTERVIEW_TOPICS catalog (src/unnamed/part_000 1-715),    *)
(*                sessions as JSON in Redis;                                *)
(*   "rotation" : the serverless handler rotating over the 10-name TOPICS   *)
(*                list (src/unnamed/part_000 716-1388), sessions in Redis.  *)
(* A request is a little process: it advances from one await of the        *)
(* handler to the next, and everything between two awaits is one step.     *)
(* A fourth program, the realtime WebSocket server (src/server.js          *)
(* 677-962), relays one client connection to an upstream socket.           *)
(***************************************************************************)
EXTENDS Integers, Sequences, FiniteSets, Bags, TLC

VARIABLES
    variant,    \* which of the three programs is deployed
    clock,      \* Date.now(), in milliseconds since the start
    sessions,   \* the session store: id -> session, or Null when absent
    reqs,       \* the request slots: each request's position and locals
    chatCalls,  \* history: chat requests that resolved the session, per id
    started,    \* history: number of requests received so far
    rt          \* the realtime server: one client connection and its sockets

vars == <<variant, clock, sessions, reqs, chatCalls, started, rt>>

(***************************** bounds ***************************************)
\* distinct millisecond values of Date.now(), hence distinct session ids
MaxClock == 2
\* requests that may be in flight together
MaxInFlight == 2
\* chat calls made after the interview has concluded (sequential runs)
MaxExtraCalls == 2
\* requests received in all (concurrent runs)
MaxRequests == 4
\* steps in which the time to live of an entry runs out
TimeSteps == 3
\* track calls made on one session (runs with expiry)
MaxTracked == 1
\* the longest message history a chat request carries
MaxLen == 3
\* messages a client sends over one realtime connection
MaxMessages == 3
\* events the upstream sockets of one realtime connection deliver
MaxEvents == 1

(************************ program constants *********************************)
QUESTION_LIMIT == 70
QUESTIONS_PER_TOPIC == 10
\* client.setEx(key, 3600, value): seconds a Redis key lives after a write
SESSION_TTL == 3600
\* the time to live of an entry that never expires (Redis TTL reports -1;
\* an entry of the Express Map)
NoExpiry == -1

INTERVIEW_TOPICS ==
    << "IFS Aspiration & Foreign Policy",
       "International Relations & Diplomacy",
       "Economics & Development",
       "Governance & Public Administration",
       "Social Issues & Welfare",
       "Education Policy & Reforms",
       "Environment & Climate Change",
       "Technology, AI & Digital Governance",
       "Ethics & Integrity in Civil Service",
       "Literature, Philosophy & Governance",
       "ARTIBUS & Communication Skills",
       "Delhi & East Delhi Context",
       "Security, Defence & Strategic Issues",
       "Multilateralism & Global Governance" >>

TOPICS ==
    << "aspirations", "international_relations", "economics",
       "literature_philosophy", "social_issues", "administration", "ethics",
       "current_affairs_india", "extracurriculars", "personal_background" >>

Variants == {"express", "catalog", "rotation"}
Serverless == {"catalog", "rotation"}
Ids == 1..MaxClock
Procs == 1..MaxInFlight

(************************ JavaScript values *********************************)
\* A numeric property is Num(n), or one of the values Undefined, Null, NaN; a
\* topic property is a name, or NoTopic (null) or MissingTopic (undefined).
Num(n) == [num |-> n]
Undefined == [js |-> "undefined"]
Null == [js |-> "null"]
NaN == [js |-> "NaN"]
NoTopic == "null"
MissingTopic == "undefined"

IsNum(x) == DOMAIN x = {"num"}

\* !t is false, for a topic property
TruthyTopic(t) == t \notin {NoTopic, MissingTopic, ""}

\* x >= n : undefined and NaN compare false, null converts to 0
JsGE(x, n) ==
    IF IsNum(x) THEN x.num >= n
    ELSE IF x = Null THEN 0 >= n
    ELSE FALSE

\* x++ : undefined and NaN give NaN, null converts to 0
JsInc(x) ==
    IF IsNum(x) THEN Num(x.num + 1)
    ELSE IF x = Null THEN Num(1)
    ELSE NaN

Range(s) == {s[i] : i \in 1..Len(s)}

\* array.includes(x)
Includes(s, x) == x \in Range(s)

\* Math.floor(Math.random() * n) : any index 0..n-1
RandomIndex(n) == 0..(n - 1)

\* JSON.parse(JSON.stringify(x)) of a numeric property: NaN is written as null
\* (an undefined property is dropped and reads back undefined)
JsonNumber(x) == IF x = NaN THEN Null ELSE x

JsonRoundTrip(data) ==
    [data EXCEPT !.conversationState.questionsOnCurrentTopic = JsonNumber(@)]

(************************ session records ***********************************)
allInterests ==
    << "development economics", "education policy",
       "diplomacy and foreign service", "leadership psychology",
       "Delhi governance", "dystopian literature", "cue sports and pool",
       "social entrepreneurship", "debating and Model UN",
       "ethics and philosophy" >>

\* (mutation) two independent draws from the pool
InterestPairsRepeated ==
    {<<allInterests[i], allInterests[j]>> :
        <<i, j>> \in (1..Len(allInterests)) \X (1..Len(allInterests))}

\* shuffled.slice(0, 2) of a shuffle of allInterests: two distinct entries
InterestPairs ==
    {<<allInterests[i], allInterests[j]>> :
        <<i, j>> \in {ij \in (1..Len(allInterests)) \X (1..Len(allInterests)) :
                        ij[1] # ij[2]}}

\* The array topicsDiscussed is read only through the number of entries equal
\* to a name and written only by push: it is kept as the bag of its entries.
ExpressInitState ==
    [hasGreeted |-> FALSE, askedIntroduction |-> FALSE,
     askedWhyCivilServices |-> FALSE, questionCount |-> 0,
     topicsDiscussed |-> EmptyBag,
     \* not set by init: read as undefined
     currentTopic |-> MissingTopic, questionsOnCurrentTopic |-> Undefined,
     shouldConclude |-> Undefined]

CatalogInitState ==
    [questionCount |-> 0, currentTopic |-> NoTopic,
     questionsOnCurrentTopic |-> Num(0), topicsCovered |-> <<>>]

RotationInitState ==
    [hasGreeted |-> FALSE, askedIntroduction |-> FALSE, questionCount |-> 0,
     topicsDiscussed |-> EmptyBag, currentTopic |-> NoTopic,
     questionsOnCurrentTopic |-> Num(0), shouldConclude |-> [bool |-> FALSE]]

\* the state a chat call of the rotation code works on when the session id
\* does not resolve (express: the same literal)
DefaultState == RotationInitState

\* The store keeps two more facts with each entry: ttl, the seconds the entry
\* has left (NoExpiry when it has no expiry), and idle, the seconds since
\* the entry was last written (history).
NewSession(v, interests) ==
    IF v = "express"
    THEN [interests |-> interests,
          metrics |-> [responses |-> 0, interruptions |-> 0,
                       conversationHistory |-> <<>>],
          conversationState |-> ExpressInitState,
          ttl |-> NoExpiry, idle |-> 0]
    ELSE [interests |-> interests,
          metrics |-> [responses |-> 0, conversationHistory |-> <<>>],
          conversationState |->
              IF v = "catalog" THEN CatalogInitState ELSE RotationInitState,
          ttl |-> NoExpiry, idle |-> 0]

(************************ the session store *********************************)
\* Request bodies carry a session id of Ids, or 0 for a body without one.
ReqIds == 0..MaxClock

\* (mutation) the key does not depend on the session id
getSessionShared(store, sessionId, ok) ==
    IF ok /\ sessionId \in DOMAIN store THEN store[1] ELSE Null

\* client.get + JSON.parse (null when the key is absent or Redis throws);
\* sessions.has / sessions.get
getSession(store, sessionId, ok) ==
    IF ok /\ sessionId \in DOMAIN store THEN store[sessionId] ELSE Null

\* (mutation) a plain SET: the entry is written without an expiry
setSessionForever(store, sessionId, data, ok) ==
    IF ok /\ sessionId \in DOMAIN store
    THEN [store EXCEPT ![sessionId] =
             [JsonRoundTrip(data) EXCEPT !.ttl = NoExpiry, !.idle = 0]]
    ELSE store

\* client.setEx(key, 3600, JSON.stringify(data)) (a Redis error is logged
\* and swallowed)
setSession(store, sessionId, data, ok) ==
    IF ok /\ sessionId \in DOMAIN store
    THEN [store EXCEPT ![sessionId] =
             [JsonRoundTrip(data) EXCEPT !.ttl = SESSION_TTL, !.idle = 0]]
    ELSE store

\* client.del (a Redis error is logged and swallowed); sessions.delete
deleteSession(store, sessionId, ok) ==
    IF ok /\ sessionId \in DOMAIN store
    THEN [store EXCEPT ![sessionId] = Null]
    ELSE store

(************************ the turn policy ***********************************)
\* (mutation) the limit compared with > instead of >=
ShouldEndLate(cs) == cs.questionCount > QUESTION_LIMIT

\* conversationState.questionCount >= QUESTION_LIMIT
ShouldEnd(cs) == cs.questionCount >= QUESTION_LIMIT

\* ---- catalog handler ----
CatalogNeedsTopic(cs) ==
    \/ ~TruthyTopic(cs.currentTopic)
    \/ JsGE(cs.questionsOnCurrentTopic, QUESTIONS_PER_TOPIC)

uncoveredTopics(cs) ==
    SelectSeq(INTERVIEW_TOPICS, LAMBDA t : ~Includes(cs.topicsCovered, t))

\* (mutation) the last uncovered topic instead of the first
CatalogChooseLast(cs, r) ==
    IF Len(uncoveredTopics(cs)) > 0
    THEN uncoveredTopics(cs)[Len(uncoveredTopics(cs))]
    ELSE INTERVIEW_TOPICS[r + 1]

\* the topic chosen at a switch; r is Math.floor(Math.random() * 14)
CatalogChoose(cs, r) ==
    IF Len(uncoveredTopics(cs)) > 0
    THEN uncoveredTopics(cs)[1]
    ELSE INTERVIEW_TOPICS[r + 1]

\* (mutation) the per-topic count is not restarted when a topic is chosen
CatalogSwitchNoReset(cs, r) ==
    IF CatalogNeedsTopic(cs)
    THEN LET t == CatalogChoose(cs, r)
         IN  [cs EXCEPT !.currentTopic = t,
                        !.topicsCovered =
                            IF Includes(@, t) THEN @ ELSE Append(@, t)]
    ELSE cs

CatalogSwitch(cs, r) ==
    IF CatalogNeedsTopic(cs)
    THEN LET t == CatalogChoose(cs, r)
         IN  [cs EXCEPT !.currentTopic = t,
                        !.questionsOnCurrentTopic = Num(0),
                        !.topicsCovered =
                            IF Includes(@, t) THEN @ ELSE Append(@, t)]
    ELSE cs

\* (mutation) questionCount++ left out
CatalogTurnUncounted(cs, r) ==
    [CatalogSwitch(cs, r) EXCEPT !.questionsOnCurrentTopic = JsInc(@)]

\* the state a chat call of the catalog handler stores
CatalogTurn(cs, r) ==
    LET sw == CatalogSwitch(cs, r)
    IN  [sw EXCEPT !.questionCount = @ + 1,
                   !.questionsOnCurrentTopic = JsInc(@)]

\* ---- rotation code (serverless rotation handler and Express server) ----
\* (mutation) the switch comes one question late
RotationNeedsSwitchLate(cs) ==
    JsGE(cs.questionsOnCurrentTopic, QUESTIONS_PER_TOPIC + 1)

RotationNeedsSwitch(cs) ==
    JsGE(cs.questionsOnCurrentTopic, QUESTIONS_PER_TOPIC)

\* (mutation) a topic stays available through a full rotation
TopicAvailableLax(cs, t) ==
    CopiesIn(t, cs.topicsDiscussed) <= QUESTIONS_PER_TOPIC

\* timesAsked < 2
TopicAvailable(cs, t) == CopiesIn(t, cs.topicsDiscussed) < 2

availableTopics(cs) == SelectSeq(TOPICS, LAMBDA t : TopicAvailable(cs, t))

\* how many outcomes the one Math.random() draw of the call has
RotationDraws(cs) ==
    IF ~RotationNeedsSwitch(cs) THEN 1
    ELSE IF Len(availableTopics(cs)) > 0 THEN Len(availableTopics(cs))
    ELSE Len(TOPICS)

RotationChoose(cs, r) ==
    IF Len(availableTopics(cs)) > 0
    THEN availableTopics(cs)[r + 1]
    ELSE TOPICS[r + 1]

\* (mutation) the per-topic count is not restarted at a switch
RotationSwitchNoReset(cs, r) ==
    IF RotationNeedsSwitch(cs)
    THEN [cs EXCEPT !.currentTopic = RotationChoose(cs, r)]
    ELSE cs

RotationSwitch(cs, r) ==
    IF RotationNeedsSwitch(cs)
    THEN [cs EXCEPT !.questionsOnCurrentTopic = Num(0),
                    !.currentTopic = RotationChoose(cs, r)]
    ELSE cs

\* (mutation) no default topic on the first call
RotationTrackNoDefault(cs) ==
    [cs EXCEPT !.topicsDiscussed = @ (+) SetToBag({cs.currentTopic}),
               !.questionsOnCurrentTopic = JsInc(@)]

\* "Track topic": default topic, push, per-topic count
RotationTrack(cs) ==
    LET t == IF TruthyTopic(cs.currentTopic) THEN cs.currentTopic
             ELSE "aspirations"
    IN  [cs EXCEPT !.currentTopic = t,
                   !.topicsDiscussed = @ (+) SetToBag({t}),
                   !.questionsOnCurrentTopic = JsInc(@)]

\* the greeting flags set by the first call
RotationGreet(cs) ==
    IF ~cs.hasGreeted
    THEN [cs EXCEPT !.hasGreeted = TRUE, !.askedIntroduction = TRUE]
    ELSE cs

\* the state a chat call of the rotation handler stores
RotationTurn(cs, r) ==
    LET g == RotationGreet(RotationTrack(RotationSwitch(cs, r)))
    IN  [g EXCEPT !.questionCount = @ + 1]

\* (mutation) the Express server leaves questionCount as it found it
ExpressTurnUncounted(cs, r) ==
    RotationGreet(RotationTrack(RotationSwitch(cs, r)))

\* the state a chat call of the Express server leaves in the session
ExpressTurn(cs, r) ==
    LET g == RotationGreet(RotationTrack(RotationSwitch(cs, r)))
    IN  [g EXCEPT !.questionCount = @ + 1]

Turn(v, cs, r) ==
    IF v = "catalog" THEN CatalogTurn(cs, r)
    ELSE IF v = "rotation" THEN RotationTurn(cs, r)
    ELSE ExpressTurn(cs, r)

Draws(v, cs) ==
    IF v = "catalog"
    THEN IF CatalogNeedsTopic(cs) /\ Len(uncoveredTopics(cs)) = 0
         THEN Len(INTERVIEW_TOPICS) ELSE 1
    ELSE RotationDraws(cs)

\* (mutation) the conclusion path counts the call as a question
ConcludeCounted(v, cs) ==
    [(IF v = "catalog" THEN cs
      ELSE [cs EXCEPT !.shouldConclude = [bool |-> TRUE]])
        EXCEPT !.questionCount = @ + 1]

\* the conclusion path: shouldConclude is set by the rotation code only
Conclude(v, cs) ==
    IF v = "catalog" THEN cs
    ELSE [cs EXCEPT !.shouldConclude = [bool |-> TRUE]]

\* ---- the messages of a chat request ----
\* an entry's content: what kind of text it is and the topic it names
Text(kind, topic) == [kind |-> kind, topic |-> topic]

\* the entries a client supplies: the persona prompt, a candidate's answer,
\* an interviewer's question
Persona == [role |-> "system", content |-> Text("persona", "none")]
Said == [role |-> "user", content |-> Text("answer", "none")]
Asked == [role |-> "assistant", content |-> Text("question", "none")]

\* the history sent by the client in the runs that do not vary it
TwoMessages == <<Persona, Said>>

\* { role: 'system', content: ... }
SystemEntry(content) == [role |-> "system", content |-> content]

\* catalog handler: topicGuidance names the current topic after the switch
topicGuidance(cs) == Text("topic", cs.currentTopic)

\* rotation code: contextMessage is the opening instruction while hasGreeted
\* is false and the guidance of the current topic afterwards
contextMessage(cs) ==
    IF ~cs.hasGreeted THEN Text("opening", "none")
    ELSE Text("topic", cs.currentTopic)

\* the guidance composed by a chat call that finds the state cs
Guidance(v, cs, r) ==
    IF v = "catalog" THEN topicGuidance(CatalogSwitch(cs, r))
    ELSE contextMessage(RotationTrack(RotationSwitch(cs, r)))

\* messages.slice(from): the entries after the first from ones
slice(messages, from) == SubSeq(messages, from + 1, Len(messages))

\* messages.slice(0, 1)
sliceFirst(messages) ==
    SubSeq(messages, 1, IF Len(messages) < 1 THEN Len(messages) ELSE 1)

\* messages[0]: undefined when the history is empty
First(messages) == IF Len(messages) > 0 THEN messages[1] ELSE Undefined

\* catalog handler: [messages[0], guidance, ...messages.slice(1)]
messagesWithGuidance(messages, content) ==
    <<First(messages), SystemEntry(content)>> \o slice(messages, 1)

\* rotation code: [...messages.slice(0, 1), guidance, ...messages.slice(1)]
modelMessages(messages, content) ==
    sliceFirst(messages) \o <<SystemEntry(content)>> \o slice(messages, 1)

\* the messages of the completion request
Forward(v, messages, content) ==
    IF v = "catalog" THEN messagesWithGuidance(messages, content)
    ELSE modelMessages(messages, content)

(************************ requests *******************************************)
\* A response: status, kind of body, rawMetrics.totalResponses (report) and
\* interests (init).
NoResponse == [status |-> 0, body |-> "none", total |-> 0, interests |-> <<>>]

\* What a gateway answers to one request: ok is response.ok; text names the
\* message content and fence tells whether it is wrapped in ``` fences.
NoReply == [ok |-> FALSE, fence |-> FALSE, text |-> "none"]
\* a non-success status
Refused == [ok |-> FALSE, fence |-> FALSE, text |-> "status"]
\* fetch rejects (network error, timeout) or response.json() throws
Thrown == [ok |-> FALSE, fence |-> FALSE, text |-> "thrown"]

\* completion gateway: a choices-shaped body, or a failure
ChatReplies ==
    {[ok |-> TRUE, fence |-> FALSE, text |-> "question"], Refused, Thrown}

\* evaluation gateway, success status: a JSON object of the asked shape
\* ("critique"), valid JSON of another shape ("other") or text that is not
\* JSON ("prose"), each bare or fenced
EvaluatorContents ==
    {[ok |-> TRUE, fence |-> f, text |-> t] :
        f \in BOOLEAN, t \in {"critique", "other", "prose"}}

IdleSlot ==
    [pc |-> "idle", op |-> "none", sid |-> 0, session |-> Null,
     found |-> FALSE, alias |-> FALSE, gateway |-> FALSE,
     reply |-> NoReply, analysis |-> Undefined, resp |-> NoResponse,
     messages |-> <<>>, body |-> <<>>]

\* a request received in slot p: the locals of a fresh handler invocation
Receive(op, sid) == [IdleSlot EXCEPT !.op = op, !.sid = sid]

\* a chat request: its body carries the message history
ReceiveChat(sid, messages) ==
    [Receive("chat", sid) EXCEPT !.messages = messages]

\* res.status(status).json(body): the handler returns
Respond(slot, status, body) ==
    [slot EXCEPT !.pc = "idle", !.session = Null, !.alias = FALSE,
                 !.messages = <<>>, !.body = <<>>,
                 !.resp = [status |-> status, body |-> body, total |-> 0,
                           interests |-> <<>>]]

Stored(sid) == sid \in Ids /\ sessions[sid] # Null

\* Express: a report awaiting the evaluator holds the live session object;
\* a write to that object shows through, a delete or a new object does not.
Aliased(rq, sid, data) ==
    [q \in Procs |->
        IF rq[q].alias /\ rq[q].sid = sid
        THEN [rq[q] EXCEPT !.session = data] ELSE rq[q]]

Unaliased(rq, sid) ==
    [q \in Procs |->
        IF rq[q].alias /\ rq[q].sid = sid
        THEN [rq[q] EXCEPT !.alias = FALSE] ELSE rq[q]]

Bump(calls, sid) == [calls EXCEPT ![sid] = @ + 1]

(************************ /api/session/init *********************************)
\* serverless: Date.now() is read, then the session is written
InitStart(p, interests) ==
    /\ variant \in Serverless
    /\ reqs[p].pc = "idle"
    /\ reqs' = [reqs EXCEPT ![p] =
                   [Receive("init", clock) EXCEPT
                       !.pc = "set",
                       !.session = NewSession(variant, interests)]]
    /\ UNCHANGED <<rt, variant, clock, sessions, chatCalls>>

InitSet(p, redisOk) ==
    /\ reqs[p].pc = "set" /\ reqs[p].op = "init"
    /\ sessions' = setSession(sessions, reqs[p].sid, reqs[p].session, redisOk)
    /\ chatCalls' = [chatCalls EXCEPT ![reqs[p].sid] = 0]
    /\ reqs' = [reqs EXCEPT ![p] =
                   [Respond(@, 200, "session") EXCEPT
                       !.resp.interests = reqs[p].session.interests]]
    /\ UNCHANGED <<rt, variant, clock>>

\* Express: sessions.set(sessionId, {...}) in one synchronous handler
InitExpress(p, interests) ==
    /\ variant = "express"
    /\ reqs[p].pc = "idle"
    /\ sessions' = [sessions EXCEPT ![clock] = NewSession(variant, interests)]
    /\ chatCalls' = [chatCalls EXCEPT ![clock] = 0]
    /\ reqs' = [Unaliased(reqs, clock) EXCEPT ![p] =
                   [Respond(Receive("init", clock), 200, "session") EXCEPT
                       !.resp.interests = interests]]
    /\ UNCHANGED <<rt, variant, clock>>

(************************ /api/chat *****************************************)
\* serverless: await getSession(sessionId)
ChatGet(p, sid, messages, redisOk) ==
    /\ variant \in Serverless
    /\ reqs[p].pc = "idle"
    /\ LET session == getSession(sessions, sid, redisOk)
       IN  IF session = Null /\ variant = "catalog"
           THEN /\ reqs' = [reqs EXCEPT ![p] =
                               Respond(ReceiveChat(sid, messages), 404,
                                       "error")]
                /\ UNCHANGED chatCalls
           ELSE /\ reqs' = [reqs EXCEPT ![p] =
                               [ReceiveChat(sid, messages) EXCEPT
                                   !.pc = "run", !.session = session,
                                   !.found = (session # Null)]]
                /\ chatCalls' = IF session # Null THEN Bump(chatCalls, sid)
                                ELSE chatCalls
    /\ UNCHANGED <<rt, variant, clock, sessions>>

\* (mutation) the state is read again at the time of the write, so that the
\* read-modify-write of a serverless chat call is one step
ChatSetAtomic(p, r, redisOk) ==
    /\ reqs[p].pc = "run" /\ reqs[p].op = "chat"
    /\ LET sid == reqs[p].sid
           session == IF Stored(sid) THEN sessions[sid] ELSE reqs[p].session
           cs == IF session = Null THEN DefaultState
                 ELSE session.conversationState
       IN  IF ShouldEnd(cs)
           THEN /\ r = 0
                /\ sessions' =
                     IF session = Null THEN sessions
                     ELSE setSession(sessions, sid,
                              [session EXCEPT !.conversationState =
                                  Conclude(variant, cs)], redisOk)
                /\ reqs' = [reqs EXCEPT ![p] = Respond(@, 200, "closing")]
           ELSE /\ r \in RandomIndex(Draws(variant, cs))
                /\ sessions' =
                     IF session = Null THEN sessions
                     ELSE setSession(sessions, sid,
                              [session EXCEPT !.conversationState =
                                  Turn(variant, cs, r)], redisOk)
                /\ reqs' = [reqs EXCEPT ![p] =
                               [@ EXCEPT !.pc = "fetch", !.session = Null,
                                         !.gateway = TRUE,
                                         !.body = Forward(variant,
                                                      reqs[p].messages,
                                                      Guidance(variant, cs, r))]]
    /\ UNCHANGED <<rt, variant, clock, chatCalls>>

\* serverless: the conclusion check, the topic logic and await setSession
ChatSet(p, r, redisOk) ==
    /\ reqs[p].pc = "run" /\ reqs[p].op = "chat"
    /\ LET session == reqs[p].session
           sid == reqs[p].sid
           cs == IF session = Null THEN DefaultState
                 ELSE session.conversationState
       IN  IF ShouldEnd(cs)
           THEN /\ r = 0
                /\ sessions' =
                     IF session = Null THEN sessions
                     ELSE setSession(sessions, sid,
                              [session EXCEPT !.conversationState =
                                  Conclude(variant, cs)], redisOk)
                /\ reqs' = [reqs EXCEPT ![p] = Respond(@, 200, "closing")]
           ELSE /\ r \in RandomIndex(Draws(variant, cs))
                /\ sessions' =
                     IF session = Null THEN sessions
                     ELSE setSession(sessions, sid,
                              [session EXCEPT !.conversationState =
                                  Turn(variant, cs, r)], redisOk)
                /\ reqs' = [reqs EXCEPT ![p] =
                               [@ EXCEPT !.pc = "fetch", !.session = Null,
                                         !.gateway = TRUE,
                                         !.body = Forward(variant,
                                                      reqs[p].messages,
                                                      Guidance(variant, cs, r))]]
    /\ UNCHANGED <<rt, variant, clock, chatCalls>>

\* Express: everything up to the await of the completion request is
\* synchronous and works on the live session object
ChatExpress(p, sid, messages, r) ==
    /\ variant = "express"
    /\ reqs[p].pc = "idle"
    /\ LET cs == IF Stored(sid) THEN sessions[sid].conversationState
                 ELSE DefaultState
           put(new) == [sessions[sid] EXCEPT !.conversationState = new]
       IN  IF ShouldEnd(cs)
           THEN /\ r = 0
                /\ sessions' =
                     IF Stored(sid)
                     THEN [sessions EXCEPT ![sid] = put(Conclude(variant, cs))]
                     ELSE sessions
                /\ reqs' =
                     [(IF Stored(sid)
                       THEN Aliased(reqs, sid, put(Conclude(variant, cs)))
                       ELSE reqs) EXCEPT ![p] =
                         Respond([ReceiveChat(sid, messages) EXCEPT
                                     !.found = Stored(sid)], 200, "closing")]
           ELSE /\ r \in RandomIndex(Draws(variant, cs))
                /\ sessions' =
                     IF Stored(sid)
                     THEN [sessions EXCEPT ![sid] = put(Turn(variant, cs, r))]
                     ELSE sessions
                /\ reqs' =
                     [(IF Stored(sid)
                       THEN Aliased(reqs, sid, put(Turn(variant, cs, r)))
                       ELSE reqs) EXCEPT ![p] =
                         [ReceiveChat(sid, messages) EXCEPT
                             !.pc = "fetch", !.found = Stored(sid),
                             !.gateway = TRUE,
                             !.body = Forward(variant, messages,
                                          Guidance(variant, cs, r))]]
    /\ chatCalls' = IF Stored(sid) THEN Bump(chatCalls, sid) ELSE chatCalls
    /\ UNCHANGED <<rt, variant, clock>>

\* (mutation) a failed completion request gives the question back
ChatFetchRollback(p, reply) ==
    /\ reqs[p].pc = "fetch" /\ reqs[p].op = "chat"
    /\ reqs' = [reqs EXCEPT ![p] =
                   IF reply.ok
                   THEN Respond([@ EXCEPT !.reply = reply], 200, "completion")
                   ELSE Respond([@ EXCEPT !.reply = reply], 500, "error")]
    /\ sessions' =
          IF ~reply.ok /\ Stored(reqs[p].sid)
          THEN [sessions EXCEPT
                   ![reqs[p].sid].conversationState.questionCount = @ - 1]
          ELSE sessions
    /\ UNCHANGED <<rt, variant, clock, chatCalls>>

\* (mutation) the gateway's body is passed on whatever its status
ChatFetchPassThrough(p, reply) ==
    /\ reqs[p].pc = "fetch" /\ reqs[p].op = "chat"
    /\ reqs' = [reqs EXCEPT ![p] =
                   IF reply # Thrown
                   THEN Respond([@ EXCEPT !.reply = reply], 200, "completion")
                   ELSE Respond([@ EXCEPT !.reply = reply], 500, "error")]
    /\ UNCHANGED <<rt, variant, clock, sessions, chatCalls>>

\* the completion gateway answers: its body is passed on with 200, a
\* non-success status or a thrown error gives 500 with an error body
ChatFetch(p, reply) ==
    /\ reqs[p].pc = "fetch" /\ reqs[p].op = "chat"
    /\ reqs' = [reqs EXCEPT ![p] =
                   IF reply.ok
                   THEN Respond([@ EXCEPT !.reply = reply], 200, "completion")
                   ELSE Respond([@ EXCEPT !.reply = reply], 500, "error")]
    /\ UNCHANGED <<rt, variant, clock, sessions, chatCalls>>

\* catalog handler: signal: AbortSignal.timeout(20000); the timer fires, fetch
\* rejects and the handler answers 500
ChatTimeout(p) ==
    /\ variant = "catalog"
    /\ ChatFetch(p, Thrown)

(************************ /api/session/track ********************************)
\* metrics.responses is kept as its length
Pushed(session) == [session EXCEPT !.metrics.responses = @ + 1]

\* (mutation) the not-found check left out: session.metrics of null throws,
\* the handler's catch answers 500
TrackGetUnchecked(p, sid, redisOk) ==
    /\ variant \in Serverless
    /\ reqs[p].pc = "idle"
    /\ LET session == getSession(sessions, sid, redisOk)
       IN  reqs' = [reqs EXCEPT ![p] =
                       IF session = Null
                       THEN Respond(Receive("track", sid), 500, "error")
                       ELSE [Receive("track", sid) EXCEPT
                                !.pc = "run", !.session = session,
                                !.found = TRUE]]
    /\ UNCHANGED <<rt, variant, clock, sessions, chatCalls>>

\* serverless: await getSession(sessionId)
TrackGet(p, sid, redisOk) ==
    /\ variant \in Serverless
    /\ reqs[p].pc = "idle"
    /\ LET session == getSession(sessions, sid, redisOk)
       IN  reqs' = [reqs EXCEPT ![p] =
                       IF session = Null
                       THEN Respond(Receive("track", sid), 404, "error")
                       ELSE [Receive("track", sid) EXCEPT
                                !.pc = "run", !.session = session,
                                !.found = TRUE]]
    /\ UNCHANGED <<rt, variant, clock, sessions, chatCalls>>

\* serverless: session.metrics.responses.push(metrics); await setSession
TrackSet(p, redisOk) ==
    /\ reqs[p].pc = "run" /\ reqs[p].op = "track"
    /\ sessions' = setSession(sessions, reqs[p].sid,
                              Pushed(reqs[p].session), redisOk)
    /\ reqs' = [reqs EXCEPT ![p] = Respond(@, 200, "success")]
    /\ UNCHANGED <<rt, variant, clock, chatCalls>>

\* Express: one synchronous handler
TrackExpress(p, sid, interruptionDetected) ==
    /\ variant = "express"
    /\ reqs[p].pc = "idle"
    /\ IF ~Stored(sid)
       THEN /\ reqs' = [reqs EXCEPT ![p] =
                           Respond(Receive("track", sid), 404, "error")]
            /\ UNCHANGED sessions
       ELSE LET new == [Pushed(sessions[sid]) EXCEPT
                           !.metrics.interruptions =
                               IF interruptionDetected THEN @ + 1 ELSE @]
            IN  /\ sessions' = [sessions EXCEPT ![sid] = new]
                /\ reqs' = [Aliased(reqs, sid, new) EXCEPT ![p] =
                               Respond([Receive("track", sid) EXCEPT
                                           !.found = TRUE], 200, "success")]
    /\ UNCHANGED <<rt, variant, clock, chatCalls>>

(************************ /api/session/delete *******************************)
\* (mutation) an id without a session is answered 404
DeleteSessionStrict(p, sid, redisOk) ==
    /\ reqs[p].pc = "idle"
    /\ IF sid = 0
       THEN /\ reqs' = [reqs EXCEPT ![p] =
                           Respond(Receive("delete", sid), 400, "error")]
            /\ UNCHANGED sessions
       ELSE IF ~Stored(sid)
       THEN /\ reqs' = [reqs EXCEPT ![p] =
                           Respond(Receive("delete", sid), 404, "error")]
            /\ UNCHANGED sessions
       ELSE /\ sessions' = deleteSession(sessions, sid,
                                         redisOk \/ variant = "express")
            /\ reqs' = [Unaliased(reqs, sid) EXCEPT ![p] =
                           Respond(Receive("delete", sid), 200, "success")]
    /\ UNCHANGED <<rt, variant, clock, chatCalls>>

DeleteSession(p, sid, redisOk) ==
    /\ reqs[p].pc = "idle"
    /\ IF sid = 0
       THEN /\ reqs' = [reqs EXCEPT ![p] =
                           Respond(Receive("delete", sid), 400, "error")]
            /\ UNCHANGED sessions
       ELSE /\ sessions' = deleteSession(sessions, sid,
                                         redisOk \/ variant = "express")
            /\ reqs' = [Unaliased(reqs, sid) EXCEPT ![p] =
                           Respond(Receive("delete", sid), 200, "success")]
    /\ UNCHANGED <<rt, variant, clock, chatCalls>>

(************************ /api/session/report *******************************)
\* the session lookup; then the evaluation request is sent
ReportGet(p, sid, redisOk) ==
    /\ reqs[p].pc = "idle"
    /\ LET session == getSession(sessions, sid,
                                 redisOk \/ variant = "express")
       IN  reqs' = [reqs EXCEPT ![p] =
                       IF session = Null
                       THEN Respond(Receive("report", sid), 404, "error")
                       ELSE [Receive("report", sid) EXCEPT
                                !.pc = "fetch", !.session = session,
                                !.found = TRUE, !.gateway = TRUE,
                                !.alias = (variant = "express")]]
    /\ UNCHANGED <<rt, variant, clock, sessions, chatCalls>>

\* ---- the critique ----
Categories ==
    {"content", "communication", "confidence", "knowledge", "etiquette"}

Entry(score, feedback) == [score |-> score, feedback |-> feedback]

\* (mutation) another fixed critique
FallbackLenient ==
    [scores |-> [content |-> Entry(7, "fixed"),
                 communication |-> Entry(7, "fixed"),
                 confidence |-> Entry(7, "fixed"),
                 knowledge |-> Entry(7, "fixed"),
                 etiquette |-> Entry(7, "fixed")],
     strengths |-> "fixed", improvements |-> "fixed", overall |-> "fixed",
     detailedNotes |-> "fixed"]

\* the literal of the catch branch; its texts are kept as the tag "fixed"
FallbackAnalysis ==
    [scores |-> [content |-> Entry(6, "fixed"),
                 communication |-> Entry(6, "fixed"),
                 confidence |-> Entry(7, "fixed"),
                 knowledge |-> Entry(6, "fixed"),
                 etiquette |-> Entry(7, "fixed")],
     strengths |-> "fixed", improvements |-> "fixed", overall |-> "fixed",
     detailedNotes |-> "fixed"]

\* what JSON.parse returns for an object of the asked shape written by the
\* evaluator, and for valid JSON of another shape
EvaluatorCritique ==
    [scores |-> [content |-> Entry(4, "evaluator"),
                 communication |-> Entry(5, "evaluator"),
                 confidence |-> Entry(3, "evaluator"),
                 knowledge |-> Entry(4, "evaluator"),
                 etiquette |-> Entry(8, "evaluator")],
     strengths |-> "evaluator", improvements |-> "evaluator",
     overall |-> "evaluator", detailedNotes |-> "evaluator"]

OtherJson == [overall |-> "evaluator"]

\* responseText.replace(/```json\n?/g, '').replace(/```\n?/g, '').trim()
StripFences(content) == [content EXCEPT !.fence = FALSE]

\* JSON.parse(jsonText) returns (it throws on fences and on prose)
JsonParses(content) ==
    ~content.fence /\ content.text \in {"critique", "other"}

JsonParse(content) ==
    IF content.text = "critique" THEN EvaluatorCritique ELSE OtherJson

\* try { analysis = JSON.parse(jsonText) } catch (e) { analysis = {...} }
Analysis(reply) ==
    LET jsonText == StripFences(reply)
    IN  IF JsonParses(jsonText) THEN JsonParse(jsonText)
        ELSE FallbackAnalysis

\* the evaluator answers: a failure gives 500; a success status gives the
\* analysis, parsed from the content or the fallback
ReportFetch(p, outcome) ==
    /\ reqs[p].pc = "fetch" /\ reqs[p].op = "report"
    /\ reqs' = [reqs EXCEPT ![p] =
                   IF ~outcome.ok
                   THEN Respond([@ EXCEPT !.reply = outcome], 500, "error")
                   ELSE [@ EXCEPT !.pc = "del", !.reply = outcome,
                                  !.analysis = Analysis(outcome)]]
    /\ UNCHANGED <<rt, variant, clock, sessions, chatCalls>>

\* (mutation) the 200 response without the delete
ReportDelKeep(p, redisOk) ==
    /\ reqs[p].pc = "del" /\ reqs[p].op = "report"
    /\ sessions' = sessions
    /\ reqs' = [Unaliased(reqs, reqs[p].sid) EXCEPT ![p] =
                   [Respond(reqs[p], 200, "analysis") EXCEPT
                       !.resp.total = reqs[p].session.metrics.responses]]
    /\ UNCHANGED <<rt, variant, clock, chatCalls>>

\* deleteSession(sessionId), then the 200 response with the critique
ReportDel(p, redisOk) ==
    /\ reqs[p].pc = "del" /\ reqs[p].op = "report"
    /\ sessions' = deleteSession(sessions, reqs[p].sid,
                                 redisOk \/ variant = "express")
    /\ reqs' = [Unaliased(reqs, reqs[p].sid) EXCEPT ![p] =
                   [Respond(reqs[p], 200, "analysis") EXCEPT
                       !.resp.total = reqs[p].session.metrics.responses]]
    /\ UNCHANGED <<rt, variant, clock, chatCalls>>

(************************ realtime WebSocket server *************************)
\* One client connection of wss.on('connection').  rt.sockets holds the
\* readyState of every upstream socket created for the client, in the order
\* of creation; rt.openaiWs is the socket the variable openaiWs refers to.
\* rt.received is the history of the client's messages, rt.sent the messages
\* written to upstream sockets and rt.toClient those written to the client,
\* each in the order of the writes.  The conversationHistory kept by the
\* upstream message handler is not followed.
NoSocket == 0

RtInit ==
    [clientWs |-> "OPEN", openaiWs |-> NoSocket, sockets |-> <<>>,
     received |-> <<>>, sent |-> <<>>, toClient |-> <<>>, events |-> 0,
     crashed |-> FALSE]

MessageTypes == {"session.init", "input_audio_buffer.append"}

\* the session.update message of the 'open' handler
sessionConfig == [type |-> "session.update", seq |-> 0]

\* socket.send(data): written when the socket is open, dropped otherwise
Send(log, sockets, i, data) ==
    IF sockets[i] = "OPEN" THEN Append(log, [socket |-> i, data |-> data])
    ELSE log

\* clientWs.on('message'): session.init creates an upstream socket and
\* assigns it to openaiWs; any other message is forwarded when openaiWs is
\* set and open
ClientMessage(type) ==
    /\ ~rt.crashed /\ rt.clientWs = "OPEN"
    /\ Len(rt.received) < MaxMessages
    /\ LET data == [type |-> type, seq |-> Len(rt.received) + 1]
           got == [rt EXCEPT !.received = Append(@, data)]
       IN  rt' = IF type = "session.init"
                 THEN [got EXCEPT !.sockets = Append(@, "CONNECTING"),
                                  !.openaiWs = Len(rt.sockets) + 1]
                 ELSE IF rt.openaiWs # NoSocket
                         /\ rt.sockets[rt.openaiWs] = "OPEN"
                 THEN [got EXCEPT !.sent =
                          Send(@, rt.sockets, rt.openaiWs, data)]
                 ELSE got
    /\ UNCHANGED <<variant, clock, sessions, reqs, chatCalls, started>>

\* openaiWs.on('open') of socket i: the handler writes through the variable
\* openaiWs, which a later session.init may have set to another socket.  A
\* send on a socket that is still connecting throws in the ws library; the
\* exception leaves the event handler and ends the process (throws), or the
\* write is dropped.
UpstreamOpen(i, throws) ==
    /\ ~rt.crashed
    /\ i \in DOMAIN rt.sockets /\ rt.sockets[i] = "CONNECTING"
    /\ LET opened == [rt.sockets EXCEPT ![i] = "OPEN"]
       IN  IF opened[rt.openaiWs] = "CONNECTING" /\ throws
           THEN rt' = [rt EXCEPT !.crashed = TRUE, !.clientWs = "CLOSED",
                                 !.sockets = [j \in DOMAIN @ |-> "CLOSED"]]
           ELSE rt' = [rt EXCEPT
                          !.sockets = opened,
                          !.sent = Send(@, opened, rt.openaiWs, sessionConfig),
                          !.toClient = IF rt.clientWs = "OPEN"
                                       THEN Append(@, "session.ready")
                                       ELSE @]
    /\ UNCHANGED <<variant, clock, sessions, reqs, chatCalls, started>>

\* openaiWs.on('message') of socket i: the event is passed on to the client
UpstreamEvent(i) ==
    /\ ~rt.crashed /\ rt.events < MaxEvents
    /\ i \in DOMAIN rt.sockets /\ rt.sockets[i] = "OPEN"
    /\ rt' = [rt EXCEPT !.events = @ + 1,
                        !.toClient = IF rt.clientWs = "OPEN"
                                     THEN Append(@, "event") ELSE @]
    /\ UNCHANGED <<variant, clock, sessions, reqs, chatCalls, started>>

\* the upstream end of socket i closes it (openaiWs.on('close')) or the
\* socket fails (openaiWs.on('error'), then 'close')
UpstreamClose(i, failed) ==
    /\ ~rt.crashed
    /\ i \in DOMAIN rt.sockets /\ rt.sockets[i] \in {"CONNECTING", "OPEN"}
    /\ rt' = [rt EXCEPT !.sockets[i] = "CLOSED",
                        !.toClient = IF failed /\ rt.clientWs = "OPEN"
                                     THEN Append(@, "error") ELSE @]
    /\ UNCHANGED <<variant, clock, sessions, reqs, chatCalls, started>>

\* clientWs.on('close'): if (openaiWs) openaiWs.close()
ClientClose ==
    /\ ~rt.crashed /\ rt.clientWs = "OPEN"
    /\ rt' = [rt EXCEPT !.clientWs = "CLOSED",
                        !.sockets = IF rt.openaiWs = NoSocket THEN @
                                    ELSE [@ EXCEPT ![rt.openaiWs] = "CLOSED"]]
    /\ UNCHANGED <<variant, clock, sessions, reqs, chatCalls, started>>

(************************ time **********************************************)
Tick ==
    /\ clock < MaxClock
    /\ clock' = clock + 1
    /\ UNCHANGED <<rt, variant, sessions, reqs, chatCalls>>

\* SESSION_TTL / TimeSteps seconds pass.  Redis removes an entry when its
\* time to live has run out; an entry without expiry stays.
Quantum == SESSION_TTL \div TimeSteps

MaxIdle == 2 * SESSION_TTL

Aged(entry) ==
    IF entry = Null THEN Null
    ELSE IF entry.ttl # NoExpiry /\ entry.ttl <= Quantum THEN Null
    ELSE [entry EXCEPT
             !.ttl = IF @ = NoExpiry THEN @ ELSE @ - Quantum,
             !.idle = IF @ + Quantum > MaxIdle THEN MaxIdle ELSE @ + Quantum]

Elapse ==
    /\ \E id \in Ids : sessions[id] # Null /\ sessions[id].idle < MaxIdle
    /\ sessions' = [id \in Ids |-> Aged(sessions[id])]
    /\ UNCHANGED <<rt, variant, clock, reqs, chatCalls, started>>

\* the response that carries the closing message
Closing ==
    [status |-> 200, body |-> "closing", total |-> 0, interests |-> <<>>]

(************************ specifications ************************************)
Init ==
    /\ variant \in Variants
    /\ clock = 1
    /\ sessions = [id \in Ids |-> Null]
    /\ reqs = [p \in Procs |-> IdleSlot]
    /\ chatCalls = [id \in Ids |-> 0]
    /\ started = 0
    /\ rt = RtInit

\* the interests drawn by init in the runs below (the turn policy and the
\* session lifecycle never read them)
SomeInterests == {<<allInterests[1], allInterests[2]>>}

\* the evaluation gateway's answers
Outcomes == EvaluatorContents \cup {Refused, Thrown}

DrawRange == RandomIndex(Len(INTERVIEW_TOPICS))

\* ---- Spec: requests overlap freely; MaxRequests requests are received
Arrive == started < MaxRequests /\ started' = started + 1

Next ==
    \/ Tick /\ UNCHANGED started
    \/ \E p \in Procs, i \in SomeInterests : Arrive /\ InitStart(p, i)
    \/ \E p \in Procs : InitSet(p, TRUE) /\ UNCHANGED started
    \/ \E p \in Procs, i \in SomeInterests : Arrive /\ InitExpress(p, i)
    \/ \E p \in Procs, sid \in ReqIds : Arrive /\ ChatGet(p, sid, TwoMessages, TRUE)
    \/ \E p \in Procs, r \in DrawRange :
           ChatSet(p, r, TRUE) /\ UNCHANGED started
    \/ \E p \in Procs, sid \in ReqIds, r \in DrawRange :
           Arrive /\ ChatExpress(p, sid, TwoMessages, r)
    \/ \E p \in Procs, reply \in ChatReplies :
           ChatFetch(p, reply) /\ UNCHANGED started
    \/ \E p \in Procs, sid \in ReqIds : Arrive /\ TrackGet(p, sid, TRUE)
    \/ \E p \in Procs : TrackSet(p, TRUE) /\ UNCHANGED started
    \/ \E p \in Procs, sid \in ReqIds, i \in BOOLEAN :
           Arrive /\ TrackExpress(p, sid, i)
    \/ \E p \in Procs, sid \in ReqIds : Arrive /\ DeleteSession(p, sid, TRUE)
    \/ \E p \in Procs, sid \in ReqIds : Arrive /\ ReportGet(p, sid, TRUE)
    \/ \E p \in Procs, o \in Outcomes :
           ReportFetch(p, o) /\ UNCHANGED started
    \/ \E p \in Procs : ReportDel(p, TRUE) /\ UNCHANGED started

Spec == Init /\ [][Next]_vars

\* ---- SpecTurn: one interview; the client holds one connection (slot 1),
\* creates one session and sends one chat request at a time, going on for
\* MaxExtraCalls calls after the interview has concluded.  Date.now() is read
\* by init alone, so time is let pass only until the session exists.
NoSession == \A id \in Ids : sessions[id] = Null

MoreCalls(sid) ==
    sid \in Ids => chatCalls[sid] < QUESTION_LIMIT + MaxExtraCalls

TurnNext ==
    \/ NoSession /\ Tick /\ UNCHANGED started
    \/ \E i \in SomeInterests :
           NoSession /\ InitStart(1, i) /\ UNCHANGED started
    \/ InitSet(1, TRUE) /\ UNCHANGED started
    \/ \E i \in SomeInterests :
           NoSession /\ InitExpress(1, i) /\ UNCHANGED started
    \/ \E sid \in ReqIds :
           MoreCalls(sid) /\ ChatGet(1, sid, TwoMessages, TRUE) /\ UNCHANGED started
    \/ \E r \in DrawRange : ChatSet(1, r, TRUE) /\ UNCHANGED started
    \/ \E sid \in ReqIds, r \in DrawRange :
           MoreCalls(sid) /\ ChatExpress(1, sid, TwoMessages, r) /\ UNCHANGED started
    \/ \E reply \in ChatReplies \ {Thrown} :
           ChatFetch(1, reply) /\ UNCHANGED started

SpecTurn == Init /\ [][TurnNext]_vars

\* ---- SpecExpiry: one interview as in SpecTurn, with track calls, while
\* time passes; the random draws are fixed to the first outcome.  Time
\* never stops passing (WF on Elapse).
FewTracks(sid) ==
    Stored(sid) => sessions[sid].metrics.responses < MaxTracked

ExpiryNext ==
    \/ Elapse
    \/ \E i \in SomeInterests :
           NoSession /\ InitStart(1, i) /\ UNCHANGED started
    \/ InitSet(1, TRUE) /\ UNCHANGED started
    \/ \E i \in SomeInterests :
           NoSession /\ InitExpress(1, i) /\ UNCHANGED started
    \/ \E sid \in Ids :
           MoreCalls(sid) /\ ChatGet(1, sid, TwoMessages, TRUE) /\ UNCHANGED started
    \/ ChatSet(1, 0, TRUE) /\ UNCHANGED started
    \/ \E sid \in Ids :
           MoreCalls(sid) /\ ChatExpress(1, sid, TwoMessages, 0) /\ UNCHANGED started
    \/ \E reply \in ChatReplies \ {Thrown} :
           ChatFetch(1, reply) /\ UNCHANGED started
    \/ \E sid \in Ids :
           FewTracks(sid) /\ TrackGet(1, sid, TRUE) /\ UNCHANGED started
    \/ TrackSet(1, TRUE) /\ UNCHANGED started
    \/ \E sid \in Ids :
           FewTracks(sid) /\ TrackExpress(1, sid, FALSE) /\ UNCHANGED started

SpecExpiry == Init /\ [][ExpiryNext]_vars /\ WF_vars(Elapse)

\* ---- SpecInterests: one client sends up to MaxRequests init, chat and
\* track requests one at a time; init draws any pair of interests.
InterestsNext ==
    \/ \E i \in InterestPairs : Arrive /\ InitStart(1, i)
    \/ InitSet(1, TRUE) /\ UNCHANGED started
    \/ \E i \in InterestPairs : Arrive /\ InitExpress(1, i)
    \/ \E sid \in Ids : Arrive /\ ChatGet(1, sid, TwoMessages, TRUE)
    \/ ChatSet(1, 0, TRUE) /\ UNCHANGED started
    \/ \E sid \in Ids : Arrive /\ ChatExpress(1, sid, TwoMessages, 0)
    \/ \E reply \in ChatReplies \ {Thrown} :
           ChatFetch(1, reply) /\ UNCHANGED started
    \/ \E sid \in Ids : Arrive /\ TrackGet(1, sid, TRUE)
    \/ TrackSet(1, TRUE) /\ UNCHANGED started
    \/ \E sid \in Ids, i \in BOOLEAN : Arrive /\ TrackExpress(1, sid, i)

SpecInterests == Init /\ [][InterestsNext]_vars

\* ---- SpecHang: one client sends up to MaxRequests init, chat and report
\* requests one at a time.  The store answers every command and a timer that
\* was set fires (WF); a gateway may leave a request unanswered for ever (no
\* fairness on ChatFetch and ReportFetch).
HangNext ==
    \/ \E i \in SomeInterests : Arrive /\ InitStart(1, i)
    \/ InitSet(1, TRUE) /\ UNCHANGED started
    \/ \E i \in SomeInterests : Arrive /\ InitExpress(1, i)
    \/ \E sid \in Ids : Arrive /\ ChatGet(1, sid, TwoMessages, TRUE)
    \/ ChatSet(1, 0, TRUE) /\ UNCHANGED started
    \/ \E sid \in Ids : Arrive /\ ChatExpress(1, sid, TwoMessages, 0)
    \/ \E reply \in ChatReplies : ChatFetch(1, reply) /\ UNCHANGED started
    \/ ChatTimeout(1) /\ UNCHANGED started
    \/ \E sid \in Ids : Arrive /\ ReportGet(1, sid, TRUE)
    \/ \E o \in Outcomes : ReportFetch(1, o) /\ UNCHANGED started
    \/ ReportDel(1, TRUE) /\ UNCHANGED started

SpecHang ==
    /\ Init /\ [][HangNext]_vars
    /\ WF_vars(InitSet(1, TRUE) /\ UNCHANGED started)
    /\ WF_vars(ChatSet(1, 0, TRUE) /\ UNCHANGED started)
    /\ WF_vars(ChatTimeout(1) /\ UNCHANGED started)
    /\ WF_vars(ReportDel(1, TRUE) /\ UNCHANGED started)

\* ---- SpecMessages: one client sends up to MaxRequests init and chat
\* requests one at a time; a chat request carries any history of at most
\* MaxLen entries.
Entries == {Persona, Said, Asked}

Histories == UNION {[1..n -> Entries] : n \in 0..MaxLen}

MessagesNext ==
    \/ \E i \in SomeInterests : Arrive /\ InitStart(1, i)
    \/ InitSet(1, TRUE) /\ UNCHANGED started
    \/ \E i \in SomeInterests : Arrive /\ InitExpress(1, i)
    \/ \E sid \in Ids, m \in Histories : Arrive /\ ChatGet(1, sid, m, TRUE)
    \/ ChatSet(1, 0, TRUE) /\ UNCHANGED started
    \/ \E sid \in Ids, m \in Histories : Arrive /\ ChatExpress(1, sid, m, 0)
    \/ \E reply \in ChatReplies \ {Thrown} :
           ChatFetch(1, reply) /\ UNCHANGED started

SpecMessages == Init /\ [][MessagesNext]_vars

\* ---- SpecRealtime: one client connection of the realtime server; the
\* client sends up to MaxMessages messages and may disconnect, the upstream
\* sockets open, deliver events and close in any order.
RealtimeInit ==
    /\ variant = "realtime"
    /\ clock = 1
    /\ sessions = [id \in Ids |-> Null]
    /\ reqs = [p \in Procs |-> IdleSlot]
    /\ chatCalls = [id \in Ids |-> 0]
    /\ started = 0
    /\ rt = RtInit

RealtimeNext ==
    \/ \E type \in MessageTypes : ClientMessage(type)
    \/ \E i \in 1..MaxMessages, throws \in BOOLEAN : UpstreamOpen(i, throws)
    \/ \E i \in 1..MaxMessages : UpstreamEvent(i)
    \/ \E i \in 1..MaxMessages, failed \in BOOLEAN : UpstreamClose(i, failed)
    \/ ClientClose

SpecRealtime == RealtimeInit /\ [][RealtimeNext]_vars

\* ---- SpecMetrics: one session, created by the first request; then up to
\* MaxRequests - 1 track requests on stored sessions, and report requests,
\* overlap freely.  Every track request received finds its session, so it
\* returns success once it has written.
MetricsNext ==
    \/ \E p \in Procs, i \in SomeInterests :
           started = 0 /\ Arrive /\ InitStart(p, i)
    \/ \E p \in Procs : InitSet(p, TRUE) /\ UNCHANGED started
    \/ \E p \in Procs, i \in SomeInterests :
           started = 0 /\ Arrive /\ InitExpress(p, i)
    \/ \E p \in Procs, sid \in Ids :
           Stored(sid) /\ Arrive /\ TrackGet(p, sid, TRUE)
    \/ \E p \in Procs : TrackSet(p, TRUE) /\ UNCHANGED started
    \/ \E p \in Procs, sid \in Ids, i \in BOOLEAN :
           Stored(sid) /\ Arrive /\ TrackExpress(p, sid, i)
    \/ \E p \in Procs, sid \in Ids :
           started > 0 /\ ReportGet(p, sid, TRUE) /\ UNCHANGED started
    \/ \E p \in Procs, o \in Outcomes :
           ReportFetch(p, o) /\ UNCHANGED started
    \/ \E p \in Procs : ReportDel(p, TRUE) /\ UNCHANGED started

SpecMetrics == Init /\ [][MetricsNext]_vars

\* ---- SpecStore: one client sends up to MaxRequests requests one at a
\* time; each Redis command of a serverless handler succeeds or fails.
StoreNext ==
    \/ \E i \in SomeInterests : Arrive /\ InitStart(1, i)
    \/ \E ok \in BOOLEAN : InitSet(1, ok) /\ UNCHANGED started
    \/ \E i \in SomeInterests : Arrive /\ InitExpress(1, i)
    \/ \E sid \in ReqIds, ok \in BOOLEAN :
           Arrive /\ ChatGet(1, sid, TwoMessages, ok)
    \/ \E ok \in BOOLEAN : ChatSet(1, 0, ok) /\ UNCHANGED started
    \/ \E sid \in ReqIds : Arrive /\ ChatExpress(1, sid, TwoMessages, 0)
    \/ \E reply \in ChatReplies : ChatFetch(1, reply) /\ UNCHANGED started
    \/ \E sid \in ReqIds, ok \in BOOLEAN : Arrive /\ TrackGet(1, sid, ok)
    \/ \E ok \in BOOLEAN : TrackSet(1, ok) /\ UNCHANGED started
    \/ \E sid \in ReqIds : Arrive /\ TrackExpress(1, sid, FALSE)
    \/ \E sid \in ReqIds, ok \in BOOLEAN : Arrive /\ ReportGet(1, sid, ok)
    \/ \E o \in Outcomes : ReportFetch(1, o) /\ UNCHANGED started
    \/ \E ok \in BOOLEAN : ReportDel(1, ok) /\ UNCHANGED started

SpecStore == Init /\ [][StoreNext]_vars

\* ---- SpecRace: one interview as in SpecTurn (slot 1, random draws fixed
\* to the first outcome) with one more request on the session, a chat or a
\* track request in slot 2, that overlaps the others at any point (a
\* duplicate or retried request).  No request is sent once a closing
\* message has been returned.
InterviewOpen == \A p \in Procs : reqs[p].resp # Closing

Unused(p) == reqs[p].op = "none"

RaceNext ==
    \/ \E i \in SomeInterests :
           NoSession /\ InitStart(1, i) /\ UNCHANGED started
    \/ InitSet(1, TRUE) /\ UNCHANGED started
    \/ \E i \in SomeInterests :
           NoSession /\ InitExpress(1, i) /\ UNCHANGED started
    \/ \E p \in Procs, sid \in Ids :
           /\ Stored(sid) /\ MoreCalls(sid) /\ InterviewOpen
           /\ p = 2 => Unused(p)
           /\ ChatGet(p, sid, TwoMessages, TRUE) /\ UNCHANGED started
    \/ \E p \in Procs : ChatSet(p, 0, TRUE) /\ UNCHANGED started
    \/ \E p \in Procs, sid \in Ids :
           /\ Stored(sid) /\ MoreCalls(sid) /\ InterviewOpen
           /\ p = 2 => Unused(p)
           /\ ChatExpress(p, sid, TwoMessages, 0) /\ UNCHANGED started
    \/ \E p \in Procs :
           ChatFetch(p, [ok |-> TRUE, fence |-> FALSE, text |-> "question"])
           /\ UNCHANGED started
    \/ \E sid \in Ids :
           /\ Stored(sid) /\ InterviewOpen /\ Unused(2)
           /\ TrackGet(2, sid, TRUE) /\ UNCHANGED started
    \/ TrackSet(2, TRUE) /\ UNCHANGED started
    \/ \E sid \in Ids :
           /\ Stored(sid) /\ InterviewOpen /\ Unused(2)
           /\ TrackExpress(2, sid, FALSE) /\ UNCHANGED started

SpecRace == Init /\ [][RaceNext]_vars

(************************ properties ****************************************)
CS(sid) == sessions[sid].conversationState

Catalog == IF variant = "catalog" THEN INTERVIEW_TOPICS ELSE TOPICS

\* this step is the state phase of a chat call on the stored session sid
ChatActs(sid) ==
    IF variant = "express"
    THEN chatCalls'[sid] = chatCalls[sid] + 1
    ELSE \E p \in Procs :
            /\ reqs[p].pc = "run" /\ reqs[p].op = "chat"
            /\ reqs[p].sid = sid /\ reqs[p].found
            /\ reqs'[p].pc # "run"

\* in this step a chat call on sid goes on to the completion gateway
Forwarded(sid) ==
    \E p \in Procs :
        /\ reqs[p].pc # "fetch" /\ reqs'[p].pc = "fetch"
        /\ reqs'[p].op = "chat" /\ reqs'[p].sid = sid /\ reqs'[p].gateway

\* in this step a chat call on sid returns the closing message, having sent
\* nothing to the gateway
Closed(sid) ==
    \E p \in Procs :
        /\ reqs[p].pc # "fetch" /\ reqs'[p].pc = "idle"
        /\ reqs'[p].op = "chat" /\ reqs'[p].sid = sid
        /\ reqs'[p].resp = Closing /\ ~reqs'[p].gateway

\* C1: in a sequential run a chat call on an existing session that goes on
\* to the gateway raises the stored questionCount by exactly 1, a call on
\* the conclusion path leaves it unchanged, and no step lowers it.
C1_QuestionCountMonotone ==
    [][\A sid \in Ids :
          Stored(sid) /\ sessions'[sid] # Null =>
             /\ CS(sid)'.questionCount >= CS(sid).questionCount
             /\ ChatActs(sid) =>
                   CS(sid)'.questionCount =
                       IF Forwarded(sid) THEN CS(sid).questionCount + 1
                       ELSE CS(sid).questionCount]_vars

C1_Witness ==
    \E sid \in Ids :
        /\ Stored(sid)
        /\ CS(sid).questionCount = QUESTION_LIMIT
        /\ chatCalls[sid] = QUESTION_LIMIT + MaxExtraCalls
        /\ \E p \in Procs : reqs[p].pc = "idle" /\ reqs[p].resp = Closing

C2_Counted ==
    \A p \in Procs :
        reqs[p].op = "chat" /\ reqs[p].found /\ reqs[p].pc \in {"idle", "fetch"}
        => IF chatCalls[reqs[p].sid] <= QUESTION_LIMIT
           THEN reqs[p].gateway /\ reqs[p].resp.body # "closing"
           ELSE reqs[p].pc = "idle" /\ reqs[p].resp = Closing
                /\ ~reqs[p].gateway

C2_Step ==
    \A sid \in Ids :
        Stored(sid) /\ ChatActs(sid) =>
            /\ (CS(sid).questionCount >= QUESTION_LIMIT) <=> Closed(sid)
            /\ (CS(sid).questionCount < QUESTION_LIMIT) <=> Forwarded(sid)

\* C2: in a sequential run on one session a chat call returns the closing
\* message (status 200) without a gateway request iff the stored
\* questionCount is at least 70 on entry and otherwise goes to the gateway;
\* the first 70 calls after init reach the gateway, the 71st and later close.
C2_ConcludesAtLimit == []C2_Counted /\ [][C2_Step]_vars

C2_Witness ==
    \E p \in Procs :
        /\ reqs[p].op = "chat" /\ reqs[p].found /\ reqs[p].pc = "idle"
        /\ reqs[p].resp = Closing /\ ~reqs[p].gateway
        /\ chatCalls[reqs[p].sid] = QUESTION_LIMIT + 1

C3_Range ==
    variant \in Serverless =>
        \A sid \in Ids :
            Stored(sid) =>
                CS(sid).questionsOnCurrentTopic
                    \in {Num(n) : n \in 0..QUESTIONS_PER_TOPIC}

C3_Step ==
    variant \in Serverless =>
        \A sid \in Ids :
            /\ Stored(sid) /\ sessions'[sid] # Null
            /\ \/ CS(sid)'.currentTopic # CS(sid).currentTopic
               \/ /\ ChatActs(sid) /\ Forwarded(sid)
                  /\ CS(sid).questionsOnCurrentTopic.num >= QUESTIONS_PER_TOPIC
            => CS(sid)'.questionsOnCurrentTopic = Num(1)

\* C3: in both serverless handlers every stored questionsOnCurrentTopic is an
\* integer in 0..10, and it is exactly 1 in the state stored by a chat call
\* that changed the current topic.
C3_PerTopicCount == []C3_Range /\ [][C3_Step]_vars

C3_Witness ==
    /\ variant \in Serverless
    /\ \E sid \in Ids :
          /\ Stored(sid)
          /\ CS(sid).questionCount = 2 * QUESTIONS_PER_TOPIC + 1
          /\ CS(sid).questionsOnCurrentTopic = Num(1)

\* C4 (as claimed): in the Express server no topic receives more than 10
\* consecutive questions: a history that holds one topic only (every
\* question so far was on the current topic) has at most 10 entries.
C4_NoTopicBeyondTen ==
    variant = "express" =>
        \A sid \in Ids :
            Stored(sid) /\ BagToSet(CS(sid).topicsDiscussed) = {CS(sid).currentTopic}
            => BagCardinality(CS(sid).topicsDiscussed) <= QUESTIONS_PER_TOPIC

\* C5: in the catalog handler, a chat call that selects a topic (none active,
\* or 10 questions on the current one) while a catalog topic is absent from
\* topicsCovered selects the first catalog entry absent from topicsCovered.
C5_FirstUncovered ==
    [][variant = "catalog" =>
        \A sid \in Ids :
            /\ Stored(sid) /\ ChatActs(sid) /\ Forwarded(sid)
            /\ \/ CS(sid).currentTopic = NoTopic
               \/ CS(sid).questionsOnCurrentTopic.num >= QUESTIONS_PER_TOPIC
            /\ \E t \in Range(INTERVIEW_TOPICS) :
                   t \notin Range(CS(sid).topicsCovered)
            => \E i \in 1..Len(INTERVIEW_TOPICS) :
                   /\ CS(sid)'.currentTopic = INTERVIEW_TOPICS[i]
                   /\ INTERVIEW_TOPICS[i] \notin Range(CS(sid).topicsCovered)
                   /\ \A j \in 1..(i - 1) :
                          INTERVIEW_TOPICS[j] \in Range(CS(sid).topicsCovered)]_vars

C5_Witness ==
    /\ variant = "catalog"
    /\ \E sid \in Ids :
          /\ Stored(sid)
          /\ Len(CS(sid).topicsCovered) = 7
          /\ CS(sid).currentTopic = INTERVIEW_TOPICS[7]
          /\ CS(sid).questionsOnCurrentTopic = Num(1)

C7_CurrentTopicSet ==
    \A sid \in Ids :
        Stored(sid) /\ CS(sid).questionCount >= 1
        => CS(sid).currentTopic \in Range(Catalog)

C7_Witness ==
    \E sid \in Ids :
        /\ Stored(sid)
        /\ CS(sid).questionCount = 1
        /\ CS(sid).currentTopic = Catalog[1]

\* C8 (as claimed): once a report for a session has returned 200 and the id
\* no longer resolves, no chat, track or report step makes it resolve again
\* (only a new init may store a session, a fresh one, under that id).
C8_ReportIsTerminal ==
    [][\A sid \in Ids :
          /\ \E p \in Procs :
                 /\ reqs[p].pc = "idle" /\ reqs[p].op = "report"
                 /\ reqs[p].sid = sid /\ reqs[p].resp.status = 200
          /\ sessions[sid] = Null
          /\ sessions'[sid] # Null
          => \E i \in SomeInterests :
                 [sessions'[sid] EXCEPT !.ttl = NoExpiry, !.idle = 0]
                     = NewSession(variant, i)]_vars

\* C9 (as claimed): in every variant a chat call whose session id does not
\* resolve answers 404 and sends nothing to the completion gateway.
C9_ChatNotFound ==
    \A p \in Procs :
        reqs[p].op = "chat" /\ ~reqs[p].found /\ reqs[p].pc # "run"
        => /\ reqs[p].pc = "idle"
           /\ reqs[p].resp.status = 404
           /\ ~reqs[p].gateway

C10_Answer ==
    \A p \in Procs :
        reqs[p].op \in {"track", "report"} /\ ~reqs[p].found
        => /\ reqs[p].pc = "idle"
           /\ reqs[p].resp.status = 404
           /\ ~reqs[p].gateway

C10_Step ==
    \A p \in Procs :
        /\ reqs[p].pc = "idle" /\ reqs'[p] # reqs[p]
        /\ reqs'[p].op \in {"track", "report"}
        /\ ~Stored(reqs'[p].sid)
        => /\ sessions' = sessions
           /\ reqs'[p].pc = "idle"
           /\ reqs'[p].resp.status = 404
           /\ ~reqs'[p].gateway

\* C10: a track or report call whose session id is not in the store answers
\* 404, contacts no gateway and leaves every stored session unchanged.
C10_TrackReportNotFound == []C10_Answer /\ [][C10_Step]_vars

C10_Witness ==
    \E p \in Procs, sid \in Ids :
        /\ reqs[p].op = "report" /\ ~reqs[p].found /\ reqs[p].pc = "idle"
        /\ reqs[p].resp.status = 404 /\ reqs[p].sid # sid
        /\ Stored(sid) /\ sessions[sid].metrics.responses = 1

\* slot p takes part in this step
Acting(p) == reqs'[p] # reqs[p]

C11_Writes ==
    \A B \in Ids :
        sessions'[B] # sessions[B] =>
            \/ \E p \in Procs :
                   /\ Acting(p) /\ reqs'[p].sid = B
                   /\ \A q \in Procs : Acting(q) => reqs'[q].sid = B
            \/ reqs' = reqs /\ \E p \in Procs : reqs[p].sid = B

C11_Reads ==
    \A p \in Procs :
        /\ Acting(p) /\ reqs[p].pc = "idle"
        /\ reqs'[p].op \in {"chat", "track", "report"}
        => /\ reqs'[p].found = Stored(reqs'[p].sid)
           /\ reqs'[p].session # Null =>
                  /\ Stored(reqs'[p].sid)
                  /\ reqs'[p].session = sessions[reqs'[p].sid]

\* C11: for distinct session ids A and B, a step of a request addressed to A
\* leaves the stored session of B as it is, and what the request reads (the
\* session it works on, whether it was found) is A's stored state alone.
C11_SessionsIsolated == [][C11_Writes /\ C11_Reads]_vars

C11_Witness ==
    /\ Stored(1) /\ Stored(2)
    /\ sessions[1].metrics.responses = 1
    /\ sessions[2].metrics.responses = 0
    /\ \E p \in Procs :
          /\ reqs[p].op = "track" /\ reqs[p].sid = 1
          /\ reqs[p].pc = "idle" /\ reqs[p].resp.status = 200

\* C12 (as claimed): the ids returned by two init calls differ, whenever
\* the calls are made.
C12_UniqueIds ==
    \A p \in Procs, q \in Procs :
        /\ p # q
        /\ reqs[p].op = "init" /\ reqs[p].pc = "idle"
        /\ reqs[p].resp.status = 200
        /\ reqs[q].op = "init" /\ reqs[q].pc = "idle"
        /\ reqs[q].resp.status = 200
        => reqs[p].sid # reqs[q].sid

\* the critique holds a score and a feedback text for each of the five
\* categories
HasCategories(a) ==
    /\ "scores" \in DOMAIN a
    /\ \A c \in Categories :
           /\ c \in DOMAIN a.scores
           /\ {"score", "feedback"} \subseteq DOMAIN a.scores[c]

\* C13 (as claimed): every 200 response of the report carries an analysis
\* with a score and a feedback for all five categories.
C13_WellFormedCritique ==
    \A p \in Procs :
        /\ reqs[p].op = "report" /\ reqs[p].pc = "idle"
        /\ reqs[p].resp.status = 200
        => HasCategories(reqs[p].analysis)

C14_Scores ==
    [content |-> 6, communication |-> 6, confidence |-> 7, knowledge |-> 6,
     etiquette |-> 7]

\* C14: when the evaluator answers with a success status and a content that
\* is not JSON (fenced or not), the report holds the fixed fallback critique
\* (scores 6, 6, 7, 6, 7, fixed texts) and is answered with 200.
C14_FallbackCritique ==
    \A p \in Procs :
        /\ reqs[p].op = "report" /\ reqs[p].reply.ok
        /\ reqs[p].reply.text = "prose"
        => /\ HasCategories(reqs[p].analysis)
           /\ \A c \in Categories :
                  /\ reqs[p].analysis.scores[c].score = C14_Scores[c]
                  /\ reqs[p].analysis.scores[c].feedback = "fixed"
           /\ reqs[p].analysis.overall = "fixed"
           /\ reqs[p].pc \in {"del", "idle"}
           /\ reqs[p].pc = "idle" =>
                  reqs[p].resp.status = 200 /\ reqs[p].resp.body = "analysis"

C14_Witness ==
    \E p \in Procs, q \in Procs :
        /\ p # q /\ reqs[p].sid # reqs[q].sid
        /\ reqs[p].op = "report" /\ reqs[p].pc = "idle"
        /\ reqs[p].reply = [ok |-> TRUE, fence |-> TRUE, text |-> "prose"]
        /\ reqs[q].op = "report" /\ reqs[q].pc = "idle"
        /\ reqs[q].reply = [ok |-> TRUE, fence |-> FALSE, text |-> "prose"]
        /\ reqs[p].analysis = reqs[q].analysis
        /\ reqs[p].resp.status = 200 /\ reqs[q].resp.status = 200

\* C15: the report removes the session in the step in which it answers 200
\* and in no other; when the evaluation gateway fails it answers 500 and
\* the step leaves the store as it is.
C15_DeleteOn200 ==
    [][\A p \in Procs :
          /\ Acting(p) /\ reqs'[p].op = "report" /\ reqs'[p].pc = "idle"
          => /\ IF reqs'[p].resp.status = 200
                THEN /\ sessions'[reqs'[p].sid] = Null
                     /\ \A B \in Ids \ {reqs'[p].sid} :
                            sessions'[B] = sessions[B]
                ELSE sessions' = sessions
             /\ reqs[p].pc = "fetch" =>
                   /\ ~reqs'[p].reply.ok
                   /\ reqs'[p].resp.status = 500
                   /\ reqs'[p].resp.body = "error"
             /\ reqs'[p].found /\ ~reqs'[p].reply.ok =>
                   reqs'[p].resp.status = 500]_vars

C15_Witness ==
    \E p \in Procs :
        /\ reqs[p].op = "report" /\ reqs[p].pc = "idle"
        /\ reqs[p].reply = Refused /\ reqs[p].resp.status = 500
        /\ Stored(reqs[p].sid)
        /\ sessions[reqs[p].sid].metrics.responses = 1

\* C16: a delete request without sessionId is answered 400 and leaves the
\* store as it is; with a sessionId it is answered success (200) and the id
\* is absent from the store after the step, whether or not a session was
\* stored under it, no other id being touched.
C16_DeleteIdempotent ==
    [][\A p \in Procs :
          Acting(p) /\ reqs'[p].op = "delete" =>
             /\ reqs'[p].pc = "idle"
             /\ IF reqs'[p].sid = 0
                THEN /\ reqs'[p].resp.status = 400
                     /\ sessions' = sessions
                ELSE /\ reqs'[p].resp.status = 200
                     /\ reqs'[p].resp.body = "success"
                     /\ sessions'[reqs'[p].sid] = Null
                     /\ \A B \in Ids \ {reqs'[p].sid} :
                            sessions'[B] = sessions[B]]_vars

C16_Witness ==
    \E p \in Procs, q \in Procs :
        /\ p # q /\ reqs[p].sid = reqs[q].sid /\ reqs[p].sid \in Ids
        /\ reqs[p].op = "delete" /\ reqs[p].resp.status = 200
        /\ reqs[q].op = "delete" /\ reqs[q].resp.status = 200
        /\ started = 3
        /\ ~Stored(reqs[p].sid)

C17_Pair(i) ==
    /\ Len(i) = 2
    /\ i[1] # i[2]
    /\ i[1] \in Range(allInterests) /\ i[2] \in Range(allInterests)

C17_Drawn ==
    /\ \A sid \in Ids : Stored(sid) => C17_Pair(sessions[sid].interests)
    /\ \A p \in Procs :
           reqs[p].op = "init" /\ reqs[p].pc = "idle"
           => reqs[p].resp.status = 200 /\ C17_Pair(reqs[p].resp.interests)

C17_Step ==
    /\ \A p \in Procs :
           Acting(p) /\ reqs'[p].op = "init" /\ reqs'[p].pc = "idle"
           => /\ sessions'[reqs'[p].sid] # Null
              /\ sessions'[reqs'[p].sid].interests = reqs'[p].resp.interests
    /\ \A sid \in Ids :
           /\ Stored(sid) /\ sessions'[sid] # Null
           /\ sessions'[sid].interests # sessions[sid].interests
           => \E p \in Procs :
                  /\ reqs'[p].op = "init" /\ reqs'[p].pc = "idle"
                  /\ reqs'[p].sid = sid /\ reqs[p].pc \in {"idle", "set"}
                  /\ reqs[p].pc = "idle" => variant = "express"

\* C17: every init call stores and returns the same 2 distinct interests of
\* the pool of 10, and no chat or track step changes the interests of a
\* stored session.
C17_TwoInterests == []C17_Drawn /\ [][C17_Step]_vars

C17_Witness ==
    \E p \in Procs :
        /\ reqs[p].op = "track" /\ reqs[p].pc = "idle"
        /\ reqs[p].resp.status = 200 /\ Stored(reqs[p].sid)
        /\ sessions[reqs[p].sid].interests = <<allInterests[10], allInterests[3]>>
        /\ sessions[reqs[p].sid].conversationState.questionCount = 1
        /\ sessions[reqs[p].sid].metrics.responses = 1

\* C18: a chat request whose completion request came back with a
\* non-success status, or threw, is answered 500 with an error body; a
\* choices-shaped body (status 200) is only ever passed on from a gateway
\* answer with a success status.
C18_GatewayFailure ==
    \A p \in Procs :
        reqs[p].op = "chat" /\ reqs[p].pc = "idle" /\ reqs[p].gateway
        => /\ reqs[p].reply \in ChatReplies
           /\ ~reqs[p].reply.ok =>
                  reqs[p].resp.status = 500 /\ reqs[p].resp.body = "error"
           /\ reqs[p].resp.body = "completion" => reqs[p].reply.ok

C18_Witness ==
    \E p \in Procs, q \in Procs :
        /\ reqs[p].op = "chat" /\ reqs[p].pc = "idle"
        /\ reqs[p].reply = Refused /\ reqs[p].resp.status = 500
        /\ reqs[q].op = "chat" /\ reqs[q].pc = "idle"
        /\ reqs[q].reply = Thrown /\ reqs[q].resp.status = 500

C19_Live ==
    variant \in Serverless =>
        \A sid \in Ids :
            Stored(sid) =>
                /\ sessions[sid].idle < SESSION_TTL
                /\ sessions[sid].ttl = SESSION_TTL - sessions[sid].idle

C19_Step ==
    variant \in Serverless =>
        /\ \A p \in Procs :
               /\ Acting(p) /\ reqs[p].pc \in {"set", "run"}
               /\ reqs[p].op \in {"init", "chat", "track"}
               /\ reqs[p].session # Null
               => /\ sessions'[reqs[p].sid] # Null
                  /\ sessions'[reqs[p].sid].ttl = SESSION_TTL
                  /\ sessions'[reqs[p].sid].idle = 0
        /\ \A sid \in Ids :
               Stored(sid) /\ sessions'[sid] = Null
               => sessions[sid].idle + Quantum >= SESSION_TTL

\* C19: in the serverless handlers every store write of init, chat (the
\* conclusion path included) and track leaves the session with 3600 seconds
\* to live; a stored session was written less than 3600 seconds ago, and a
\* session is removed by expiry no earlier than 3600 seconds after its last
\* write.
C19_TimeToLive == []C19_Live /\ [][C19_Step]_vars

C19_Witness ==
    /\ variant \in Serverless
    /\ NoSession
    /\ chatCalls[1] = QUESTION_LIMIT + 1
    /\ reqs[1].op = "chat" /\ reqs[1].resp = Closing

\* C20 (as claimed): in the Express server a stored session is eventually
\* removed from the session map, although no report or delete request is
\* ever made for it.
C20_ExpressSessionExpires ==
    \A sid \in Ids : (variant = "express" /\ Stored(sid)) ~> ~Stored(sid)


\* C21: in the serverless handlers a chat call that goes on to the gateway
\* writes the questionCount it read plus one, whatever the store holds by
\* then; with two overlapping calls on one session the later write wins, and
\* a state is reached (C21_Witness) where two questions were forwarded while
\* the stored questionCount and questionsOnCurrentTopic grew by 1 only.
C21_LostUpdate ==
    [][\A p \in Procs :
          /\ variant \in Serverless
          /\ reqs[p].pc = "run" /\ reqs[p].op = "chat" /\ reqs[p].found
          /\ reqs'[p].pc = "fetch"
          => /\ sessions'[reqs[p].sid] # Null
             /\ CS(reqs[p].sid)'.questionCount =
                    reqs[p].session.conversationState.questionCount + 1]_vars

C21_Witness ==
    /\ variant \in Serverless
    /\ \E sid \in Ids :
          /\ Stored(sid) /\ chatCalls[sid] = 2
          /\ \A p \in Procs :
                /\ reqs[p].pc = "fetch" /\ reqs[p].op = "chat"
                /\ reqs[p].sid = sid /\ reqs[p].found /\ reqs[p].gateway
          /\ CS(sid).questionCount = 1
          /\ CS(sid).questionsOnCurrentTopic = Num(1)


\* two chat calls on the stored session sid, the only ones since its init,
\* are both waiting for the completion gateway
C22_Overlap(sid) ==
    /\ Stored(sid) /\ chatCalls[sid] = 2
    /\ \A p \in Procs :
          /\ reqs[p].pc = "fetch" /\ reqs[p].op = "chat"
          /\ reqs[p].sid = sid /\ reqs[p].found /\ reqs[p].gateway

C23_Injected(p) ==
    reqs'[p].body[IF variant = "catalog" THEN 2
                  ELSE Len(sliceFirst(reqs'[p].messages)) + 1].content

\* C23 (as claimed): in every variant, in a sequential run on a session
\* created by init, the first chat call injects the fixed opening instruction
\* and not topic guidance, and every later chat call that reaches the gateway
\* injects topic guidance.
C23_OpeningOnce ==
    [][\A sid \in Ids, p \in Procs :
          /\ Stored(sid) /\ ChatActs(sid) /\ Forwarded(sid)
          /\ reqs'[p].pc = "fetch" /\ reqs'[p].sid = sid
          => C23_Injected(p).kind =
                 IF chatCalls'[sid] = 1 THEN "opening" ELSE "topic"]_vars


\* C24 (as claimed): after the first chat call on a freshly initialised
\* session the stored questionCount is 1 and the stored
\* questionsOnCurrentTopic is 0.
C24_OpeningUncounted ==
    \A sid \in Ids :
        /\ Stored(sid) /\ chatCalls[sid] = 1
        /\ \A p \in Procs : ~(reqs[p].pc = "run" /\ reqs[p].sid = sid)
        => /\ CS(sid).questionCount = 1
           /\ CS(sid).questionsOnCurrentTopic = Num(0)


\* conversationState.shouldConclude is true (a state without the field, or
\* with the field undefined, does not have it true)
C25_Flag(cs) ==
    /\ "shouldConclude" \in DOMAIN cs
    /\ cs.shouldConclude = [bool |-> TRUE]

\* C25 (as claimed): in every stored conversationState shouldConclude is true
\* exactly when questionCount has reached 70.
C25_FlagAtLimit ==
    \A sid \in Ids :
        Stored(sid) =>
            (C25_Flag(CS(sid)) <=> CS(sid).questionCount >= QUESTION_LIMIT)


\* C26 (as claimed): every chat and every report request that has been
\* received is eventually answered, whether or not the gateway it calls
\* ever answers.
C26_AlwaysAnswers ==
    \A p \in Procs :
        (reqs[p].pc # "idle" /\ reqs[p].op \in {"chat", "report"})
            ~> (reqs[p].pc = "idle")


\* the topic history of a conversationState: topicsCovered in the catalog
\* handler, topicsDiscussed in the rotation code
C27_History(cs) ==
    IF "topicsCovered" \in DOMAIN cs THEN cs.topicsCovered
    ELSE cs.topicsDiscussed

\* C27: in a sequential run a chat call that takes the conclusion path leaves
\* the stored questionCount, currentTopic, questionsOnCurrentTopic and topic
\* history exactly as they were before the call.
C27_ConclusionFrame ==
    [][\A sid \in Ids :
          Stored(sid) /\ ChatActs(sid) /\ Closed(sid) =>
             /\ sessions'[sid] # Null
             /\ CS(sid)'.questionCount = CS(sid).questionCount
             /\ CS(sid)'.currentTopic = CS(sid).currentTopic
             /\ CS(sid)'.questionsOnCurrentTopic =
                    CS(sid).questionsOnCurrentTopic
             /\ C27_History(CS(sid)') = C27_History(CS(sid))]_vars

C27_Witness ==
    \E sid \in Ids :
        /\ Stored(sid)
        /\ chatCalls[sid] = QUESTION_LIMIT + 1
        /\ CS(sid).questionCount = QUESTION_LIMIT
        /\ TruthyTopic(CS(sid).currentTopic)
        /\ reqs[1].pc = "idle" /\ reqs[1].op = "chat" /\ reqs[1].sid = sid
        /\ reqs[1].resp = Closing


\* a chat call that finds the state cs activates a topic: none is active yet
\* or the current one has had its 10 questions
C28_Activates(cs) ==
    \/ ~TruthyTopic(cs.currentTopic)
    \/ JsGE(cs.questionsOnCurrentTopic, QUESTIONS_PER_TOPIC)

\* the history h with one more entry t
C28_Grown(h, t) ==
    IF variant = "catalog" THEN Append(h, t) ELSE h (+) SetToBag({t})

\* C28 (as claimed): in every variant, in a sequential run, a chat call that
\* activates a topic adds the newly chosen current topic to the topic
\* history, and a call that stays on the current topic leaves the history
\* unchanged.
C28_HistoryOnActivation ==
    [][\A sid \in Ids :
          /\ Stored(sid) /\ ChatActs(sid) /\ Forwarded(sid)
          /\ sessions'[sid] # Null
          => C27_History(CS(sid)') =
                 IF C28_Activates(CS(sid))
                 THEN C28_Grown(C27_History(CS(sid)), CS(sid)'.currentTopic)
                 ELSE C27_History(CS(sid))]_vars


\* the number of rotations topic t has had when a switch is due: each
\* rotation of a sequential run is QUESTIONS_PER_TOPIC questions long
C29_Rotations(cs, t) ==
    CopiesIn(t, cs.topicsDiscussed) \div QUESTIONS_PER_TOPIC

\* C29 (as claimed): in the handlers that rotate over TOPICS, when a switch
\* is due the preferred pool holds exactly the topics that have been the
\* current topic in fewer than two rotations.
C29_TwoRotations ==
    variant # "catalog" =>
        \A sid \in Ids :
            Stored(sid) /\ RotationNeedsSwitch(CS(sid)) =>
                Range(availableTopics(CS(sid))) =
                    {t \in Range(TOPICS) : C29_Rotations(CS(sid), t) < 2}


\* C30 (as claimed): the completion request of a chat call that was sent a
\* history of n >= 0 entries carries exactly n + 1 entries: the first
\* supplied entry (if any), then the system guidance entry, then the other
\* supplied entries in their order.
C30_ForwardedSequence ==
    \A p \in Procs :
        reqs[p].pc = "fetch" /\ reqs[p].op = "chat" =>
            LET m == reqs[p].messages
                b == reqs[p].body
                n == Len(m)
                k == IF n > 0 THEN 2 ELSE 1
            IN  /\ Len(b) = n + 1
                /\ n > 0 => b[1] = m[1]
                /\ b[k].role = "system"
                /\ b[k].content.kind \in {"opening", "topic"}
                /\ \A i \in 2..n : b[i + 1] = m[i]


\* the messages other than session.init that the client sent after its
\* first session.init, in the order of arrival
C39_AfterInit ==
    SelectSeq(rt.received,
        LAMBDA m : /\ m.type # "session.init"
                   /\ \E k \in 1..Len(rt.received) :
                         /\ rt.received[k].type = "session.init"
                         /\ rt.received[k].seq < m.seq)

\* the client messages written to upstream sockets, in the order of the
\* writes
C39_Relayed ==
    LET w == SelectSeq(rt.sent, LAMBDA e : e.data # sessionConfig)
    IN  [k \in 1..Len(w) |-> w[k].data]

\* C39 (as claimed): in the realtime server every client message of a type
\* other than session.init that arrives after the client's session.init is
\* forwarded upstream, in arrival order, and none is dropped.
C39_AllForwarded == ~rt.crashed => C39_Relayed = C39_AfterInit

\* C40 (as claimed): in the realtime server a client connection has at most
\* one upstream socket that is open or opening at any time, and once the
\* client has disconnected every upstream socket created for it is closed.
C40_OneUpstream ==
    /\ Cardinality({i \in DOMAIN rt.sockets :
                       rt.sockets[i] \in {"CONNECTING", "OPEN"}}) <= 1
    /\ rt.clientWs = "CLOSED" =>
          \A i \in DOMAIN rt.sockets : rt.sockets[i] = "CLOSED"


\* in this step the track request of slot p completes with success
C31_Tracked(p) ==
    \/ /\ reqs[p].pc = "run" /\ reqs[p].op = "track"
       /\ reqs'[p].pc = "idle"
    \/ /\ variant = "express" /\ reqs[p].pc = "idle" /\ Acting(p)
       /\ reqs'[p].op = "track" /\ reqs'[p].resp.status = 200

\* C31 (as claimed): a track request changes neither the conversationState
\* nor the interests of its session: when it completes, the store holds the
\* conversationState and the interests it held just before, whatever chat
\* requests ran in between.
C31_TrackFrame ==
    [][\A p \in Procs, sid \in Ids :
          C31_Tracked(p) /\ reqs'[p].sid = sid /\ Stored(sid) =>
             /\ sessions'[sid] # Null
             /\ CS(sid)' = CS(sid)
             /\ sessions'[sid].interests = sessions[sid].interests]_vars


\* SpecMetrics: the track requests that have returned success so far (the
\* first request received is the init, the others are track requests)
C32_Succeeded ==
    started - 1
      - Cardinality({q \in Procs :
                        reqs[q].op = "track" /\ reqs[q].pc = "run"})

\* C32 (as claimed): the session a serverless report reads holds as many
\* tracked responses as track calls have returned success, overlapping ones
\* included; a 200 report returns the count of the session it holds as
\* rawMetrics.totalResponses, and in the Express server that count is the
\* number of track calls that have returned success.
C32_TotalResponses ==
    [][\A p \in Procs :
          /\ /\ variant \in Serverless
             /\ reqs[p].pc = "idle" /\ reqs'[p].pc = "fetch"
             /\ reqs'[p].op = "report"
             => reqs'[p].session.metrics.responses = C32_Succeeded
          /\ /\ reqs[p].pc = "del" /\ reqs[p].op = "report"
             /\ reqs'[p].resp.status = 200
             => /\ reqs'[p].resp.total = reqs[p].session.metrics.responses
                /\ variant = "express" =>
                       reqs'[p].resp.total = C32_Succeeded]_vars

\* C37 (as claimed): for one session at most one report request returns
\* 200.
C37_OneReport ==
    \A p, q \in Procs :
        /\ p # q
        /\ reqs[p].op = "report" /\ reqs[p].pc = "idle"
        /\ reqs[p].resp.status = 200
        /\ reqs[q].op = "report" /\ reqs[q].pc = "idle"
        /\ reqs[q].sid = reqs[p].sid
        => reqs[q].resp.status # 200


\* C33 (as claimed): in the serverless handlers a chat, track or report
\* request is answered 404 only if the store holds no session under its id
\* when the handler reads it.
C33_NotFoundMeansAbsent ==
    [][\A p \in Procs :
          /\ variant \in Serverless
          /\ reqs[p].pc = "idle" /\ Acting(p)
          /\ reqs'[p].op \in {"chat", "track", "report"}
          /\ reqs'[p].resp.status = 404
          => ~Stored(reqs'[p].sid)]_vars


\* SpecRace: the chat requests on sid that have been forwarded to the
\* completion gateway: those that resolved the session, less those that
\* have not yet run and those that returned the closing message
C34_Forwards(sid) ==
    chatCalls[sid]
      - Cardinality({p \in Procs :
            /\ reqs[p].op = "chat" /\ reqs[p].sid = sid /\ reqs[p].found
            /\ \/ reqs[p].pc = "run"
               \/ reqs[p].pc = "idle" /\ reqs[p].resp = Closing})

\* C34 (as claimed): for every interleaving of requests on a session, at
\* most 70 chat requests have been forwarded to the completion gateway as
\* long as no closing message has been returned.
C34_AtMostSeventy ==
    \A sid \in Ids :
        Stored(sid) /\ InterviewOpen => C34_Forwards(sid) <= QUESTION_LIMIT


\* C35: in the catalog handler, for every interleaving of the requests on a
\* session, every stored conversationState with questionCount >= 1 has
\* questionCount = 10 * (entries of topicsCovered - 1) +
\* questionsOnCurrentTopic, topicsCovered without duplicates, and
\* currentTopic as the last entry of topicsCovered.
C35_CatalogCounters ==
    variant = "catalog" =>
        \A sid \in Ids :
            Stored(sid) /\ CS(sid).questionCount >= 1 =>
                LET cs == CS(sid)
                    n == Len(cs.topicsCovered)
                IN  /\ n >= 1
                    /\ IsNum(cs.questionsOnCurrentTopic)
                    /\ cs.questionCount =
                           QUESTIONS_PER_TOPIC * (n - 1)
                               + cs.questionsOnCurrentTopic.num
                    /\ Cardinality(Range(cs.topicsCovered)) = n
                    /\ cs.topicsCovered[n] = cs.currentTopic

C35_Witness ==
    /\ variant = "catalog"
    /\ \E sid \in Ids :
          /\ Stored(sid)
          /\ CS(sid).questionCount = QUESTIONS_PER_TOPIC + 1
          /\ Len(CS(sid).topicsCovered) = 2
          /\ chatCalls[sid] > CS(sid).questionCount
          /\ \A p \in Procs : reqs[p].pc = "idle"


\* the topics that have been activated in the conversationState cs
C36_Activated(cs) ==
    IF variant = "catalog" THEN Range(cs.topicsCovered)
    ELSE BagToSet(cs.topicsDiscussed)

\* the next chat call on cs would pick at random from the full catalog
C36_Fallback(cs) ==
    IF variant = "catalog"
    THEN CatalogNeedsTopic(cs) /\ Len(uncoveredTopics(cs)) = 0
    ELSE RotationNeedsSwitch(cs) /\ Len(availableTopics(cs)) = 0

C38_Persisted ==
    \A p \in Procs :
        /\ reqs[p].op = "chat" /\ reqs[p].found /\ reqs[p].gateway
        /\ reqs[p].pc \in {"fetch", "idle"}
        => /\ Stored(reqs[p].sid)
           /\ CS(reqs[p].sid).questionCount = chatCalls[reqs[p].sid]

C38_Step ==
    \A p \in Procs :
        reqs[p].pc = "fetch" /\ reqs[p].op = "chat" /\ reqs'[p].pc = "idle"
        => sessions' = sessions

\* C38: in a sequential run, while a chat call that passed the conclusion
\* check waits for the completion gateway, and after it has been answered,
\* the store holds the incremented questionCount (the number of chat calls
\* made so far); the step that answers the call, with the gateway's body or
\* with 500 after a gateway failure, leaves the store unchanged.
C38_PersistBeforeFetch == []C38_Persisted /\ [][C38_Step]_vars

C38_Witness ==
    \E p \in Procs :
        /\ reqs[p].op = "chat" /\ reqs[p].found /\ reqs[p].gateway
        /\ reqs[p].pc = "idle" /\ reqs[p].resp.status = 500
        /\ Stored(reqs[p].sid)
        /\ CS(reqs[p].sid).questionCount = 2
        /\ chatCalls[reqs[p].sid] = 2

====
